---- MODULE Spec2Model ----
(***************************************************************************)
(* State-machine model of src/bot.py, the Telegram bot for the Granada     *)
(* light rail: favourites and alerts kept in memory and in two JSON files, *)
(* the inline-callback handlers, the periodic alert sweep check_alertas    *)
(* and the two-column network-status rendering estado_textual.             *)
(***************************************************************************)
EXTENDS Integers, Sequences, FiniteSets, TLC

VARIABLES
    paradas,    \* ordered dict stop id -> nombre, as a list of pairs (bot.py:48)
    favoritos,  \* dict user_id (int) -> set of stop ids, each set as its
                \* elements in the order the set iterates         (bot.py:47)
    favFile,    \* favoritos.json: [exists, data]                   (bot.py:39)
    alertas,    \* ordered dict str(user_id) -> list of alerts      (bot.py:50)
    alertFile,  \* alertas.json: [exists, data]                     (bot.py:40)
    reply,      \* the last answer of a favourites handler: [user, text]
    sw,         \* check_alertas: its position and its locals
    notif,      \* the send_message call check_alertas is awaiting
    gh,         \* history of the alerts: which were created, examined, notified
    datos,      \* the body of GET /metro/llegadas estado_textual works on
    teclado,    \* the inline keyboard estado_textual sent
    hist,       \* history: the last favourites callback and the set it found
    inline,     \* per user, the inline keyboard the user can press: that of the
                \* last message sent with one or edited
    ud,         \* context.user_data: per user, "menu_msg_id" (0 for none)
    chat,       \* per user, the ids of the menu messages that exist in the chat
    mn,         \* enviar_mensaje_menu: its position, and its last call
    hd          \* the handler that has not returned: its user, the Telegram
                \* calls it has still to await, whether the menu follows

vars == <<paradas, favoritos, favFile, alertas, alertFile, reply, sw, notif, gh,
          datos, teclado, hist, inline, ud, chat, mn, hd>>

estVars   == <<paradas, datos, teclado>>

favVars   == <<favoritos, favFile>>
alertVars == <<alertas, alertFile, sw, notif, gh>>
chatVars  == <<inline, ud, chat, mn, hd>>

----------------------------------------------------------------------------
(* Bounds of the model and constants of the program *)

\* Telegram user ids of the model; 42 has two digits, so str()/int() of a
\* dictionary key is a real conversion.
Users == {7, 42}

\* Number of distinct stop ids the favourites callbacks are called with.
NumFavPids == 6
FavPids == 1..NumFavPids

\* The capacity test of toggle_fav_callback: len(favs) >= 5.
FavLimit == 5

MsgEliminada == "Parada eliminada de favoritas."
MsgLimite    == "Limite de 5 favoritas alcanzado."
MsgAnadida   == "Parada anadida a favoritas."
MsgFavDel    == "Favorita eliminada."

----------------------------------------------------------------------------
(* Python values: dictionaries, str(int), int(str), sets, list(set), set(list) *)

\* {} : the dictionary with no keys.
EmptyDict == [k \in {} |-> {}]

\* d.get(k, default)
DictGet(d, k, default) == IF k \in DOMAIN d THEN d[k] ELSE default

\* d[k] = v
DictSet(d, k, v) == (k :> v) @@ d

DigitChars == <<"0", "1", "2", "3", "4", "5", "6", "7", "8", "9">>

\* str(n) for an int n >= 0: its decimal digits, most significant first.
RECURSIVE py_str(_)
py_str(n) ==
    IF n < 10 THEN <<DigitChars[n + 1]>>
    ELSE py_str(n \div 10) \o <<DigitChars[(n % 10) + 1]>>

DigitVal(c) == CHOOSE d \in 0..9 : DigitChars[d + 1] = c

\* int(s) for a string of decimal digits.
RECURSIVE py_int(_)
py_int(s) ==
    IF Len(s) = 1 THEN DigitVal(s[1])
    ELSE py_int(SubSeq(s, 1, Len(s) - 1)) * 10 + DigitVal(s[Len(s)])

\* The elements of a list.
Elems(l) == {l[i] : i \in 1..Len(l)}

\* A Python set iterates in the order of the slots of its hash table. The slot
\* of a string follows from its hash, which differs from process to process,
\* and from what was added and removed before; the table is rebuilt when it
\* fills. The model holds a set as the list of its elements in that order.
\* The orders a set with the elements S can have:
RECURSIVE Ordenes(_)
Ordenes(S) ==
    IF S = {} THEN {<<>>}
    ELSE UNION {{<<x>> \o p : p \in Ordenes(S \ {x})} : x \in S}

\* set(): the empty set.
EmptySet == <<>>

\* x in v
set_in(x, v) == x \in Elems(v)

\* v.add(x): the sets v can be afterwards. A new element takes the slot its
\* hash gives, and the table may be rebuilt: any order of the elements.
set_add(v, x) == IF set_in(x, v) THEN {v} ELSE Ordenes(Elems(v) \cup {x})

\* v.remove(x) for x in v, and v.discard(x): the slot of x is freed, the other
\* elements stay where they are.
set_discard(v, x) == SelectSeq(v, LAMBDA y : y # x)

\* list(v) for a set v: its elements, each once, in the set's iteration order.
py_list(v) == [i \in 1..Len(v) |-> v[i]]

\* set(l) for a list l: the sets it can give, the elements of l added one by
\* one to an empty set.
py_set(l) == Ordenes(Elems(l))

----------------------------------------------------------------------------
(* JSON persistence of the favourites *)

\* The file system before the first save: no favoritos.json.
NoFile == [exists |-> FALSE, data |-> EmptyDict]

\* cargar_json(ruta, por_defecto)
cargar_json(file, por_defecto) == IF file.exists THEN file.data ELSE por_defecto

\* guardar_json(ruta, datos)
guardar_json(contenido) == [exists |-> TRUE, data |-> contenido]

\* cargar_favoritos: {int(k): set(v) for k, v in tmp.items()}, the
\* dictionaries it can give.
cargar_favoritos(file) ==
    LET tmp  == cargar_json(file, EmptyDict)
        us   == {py_int(k) : k \in DOMAIN tmp}
        de(u) == tmp[CHOOSE k \in DOMAIN tmp : py_int(k) = u]
    IN  {f \in [us -> UNION {py_set(de(u)) : u \in us}] :
            \A u \in us : f[u] \in py_set(de(u))}

\* guardar_favoritos that leaves out the users whose set is empty.
guardar_favoritos_nonempty(favs) ==
    guardar_json([k \in {py_str(u) : u \in {v \in DOMAIN favs : favs[v] # EmptySet}} |->
                     py_list(favs[CHOOSE u \in DOMAIN favs : py_str(u) = k])])

\* guardar_favoritos: {str(k): list(v) for k, v in favoritos.items()}
guardar_favoritos(favs) ==
    guardar_json([k \in {py_str(u) : u \in DOMAIN favs} |->
                     py_list(favs[CHOOSE u \in DOMAIN favs : py_str(u) = k])])

----------------------------------------------------------------------------
(* Favourites handlers *)

\* toggle_fav_callback with the capacity test off by one: len(favs) > 5.
toggle_fav_callback_offbyone(user, pid) ==
    LET favs  == DictGet(favoritos, user, EmptySet)
        quita == set_in(pid, favs)
        lleno == Len(favs) > FavLimit
        favs2 == IF quita THEN {set_discard(favs, pid)}
                 ELSE IF lleno THEN {favs}
                 ELSE set_add(favs, pid)
        msg   == IF quita THEN MsgEliminada
                 ELSE IF lleno THEN MsgLimite
                 ELSE MsgAnadida
    IN  /\ reply' = [user |-> user, text |-> msg]
        /\ favoritos' \in {DictSet(favoritos, user, f) : f \in favs2}
        /\ favFile' = guardar_favoritos(favoritos')

\* toggle_fav_callback that answers "eliminada" without removing the stop.
toggle_fav_callback_noremove(user, pid) ==
    LET favs  == DictGet(favoritos, user, EmptySet)
        quita == set_in(pid, favs)
        lleno == Len(favs) >= FavLimit
        favs2 == IF quita \/ lleno THEN {favs} ELSE set_add(favs, pid)
        msg   == IF quita THEN MsgEliminada
                 ELSE IF lleno THEN MsgLimite
                 ELSE MsgAnadida
    IN  /\ reply' = [user |-> user, text |-> msg]
        /\ favoritos' \in {DictSet(favoritos, user, f) : f \in favs2}
        /\ favFile' = guardar_favoritos(favoritos')

\* toggle_fav_callback that tests the capacity before the membership: a stop
\* of a full set is not removed.
toggle_fav_callback_limitfirst(user, pid) ==
    LET favs  == DictGet(favoritos, user, EmptySet)
        lleno == Len(favs) >= FavLimit
        quita == ~lleno /\ set_in(pid, favs)
        favs2 == IF lleno THEN {favs}
                 ELSE IF quita THEN {set_discard(favs, pid)}
                 ELSE set_add(favs, pid)
        msg   == IF lleno THEN MsgLimite
                 ELSE IF quita THEN MsgEliminada
                 ELSE MsgAnadida
    IN  /\ reply' = [user |-> user, text |-> msg]
        /\ favoritos' \in {DictSet(favoritos, user, f) : f \in favs2}
        /\ favFile' = guardar_favoritos(favoritos')

\* toggle_fav_callback(q, context, pid) with q.from_user.id = user, up to
\* its await (lines 230-241); msg is the text it then answers with, favs2 the
\* sets favs can be after it.
toggle_fav_callback(user, pid) ==
    LET favs  == DictGet(favoritos, user, EmptySet)     \* setdefault(user, set())
        quita == set_in(pid, favs)
        lleno == Len(favs) >= FavLimit
        favs2 == IF quita THEN {set_discard(favs, pid)}
                 ELSE IF lleno THEN {favs}
                 ELSE set_add(favs, pid)
        msg   == IF quita THEN MsgEliminada
                 ELSE IF lleno THEN MsgLimite
                 ELSE MsgAnadida
    IN  /\ reply' = [user |-> user, text |-> msg]
        /\ favoritos' \in {DictSet(favoritos, user, f) : f \in favs2}
        /\ favFile' = guardar_favoritos(favoritos')

\* del_fav_callback that discards the stop from every user's set.
del_fav_callback_all(user, pid) ==
    /\ reply' = [user |-> user, text |-> MsgFavDel]
    /\ favoritos' = [u \in DOMAIN favoritos |-> set_discard(favoritos[u], pid)]
    /\ favFile' = guardar_favoritos(favoritos')

\* del_fav_callback that looks the user up with setdefault: a user without
\* an entry gets an empty one.
del_fav_callback_setdefault(user, pid) ==
    /\ reply' = [user |-> user, text |-> MsgFavDel]
    /\ favoritos' = DictSet(favoritos, user,
                            set_discard(DictGet(favoritos, user, EmptySet), pid))
    /\ favFile' = guardar_favoritos(favoritos')

\* del_fav_callback(q, context, pid) with q.from_user.id = user, up to its
\* await (lines 246-248)
del_fav_callback(user, pid) ==
    /\ reply' = [user |-> user, text |-> MsgFavDel]
    /\ favoritos' = IF user \in DOMAIN favoritos
                    THEN [favoritos EXCEPT ![user] = set_discard(@, pid)]
                    ELSE favoritos     \* discard on the throw-away set()
    /\ favFile' = guardar_favoritos(favoritos')

NoReply == [user |-> 0, text |-> ""]

----------------------------------------------------------------------------
(* Stops, alert buttons and the transit API *)

\* Number of stops cargar_paradas loaded.
NumParadas == 2
Pids == 1..NumParadas

Nombre(pid) == <<"parada", pid>>

\* cargar_paradas: {p["id"]: p["nombre"] for p in datos}, for the stops with
\* the ids given, in the API's order.
cargar_paradas(ids) == [i \in 1..Len(ids) |-> [id |-> ids[i], nombre |-> Nombre(ids[i])]]

\* paradas.get(pid): the nombre, or None
paradas_get(pid) ==
    IF \E i \in 1..Len(paradas) : paradas[i].id = pid
    THEN paradas[CHOOSE i \in 1..Len(paradas) : paradas[i].id = pid].nombre
    ELSE <<"None">>

\* The threshold buttons of the setalert step: alertthr:{pid}:2, :5, :8.
UmbralButtons == {<<"2">>, <<"5">>, <<"8">>}

\* The direction buttons of the alertthr step.
Direcciones == {"Armilla", "Albolote"}

\* Minutes the API reports in the alert model: at, between and above the
\* thresholds.
MinutosAlerta == {2, 5, 9}

\* Longest list of arrivals ("proximos") of one response.
MaxProx == 2

Llegadas(minutos) == [minutos : minutos, direccion : Direcciones]

RECURSIVE SeqsUpTo(_, _)
SeqsUpTo(S, n) ==
    IF n = 0 THEN {<<>>}
    ELSE LET shorter == SeqsUpTo(S, n - 1)
         IN  shorter \cup {Append(p, x) : p \in {q \in shorter : Len(q) = n - 1}, x \in S}

\* What requests.get(".../metro/llegadas/{pid}") can give check_alertas: a
\* failure (an exception, or a status raise_for_status rejects), or a body
\* whose "proximos" is a list of at most n arrivals.
Responses(n) ==
    {[ok |-> FALSE, prox |-> <<>>]}
        \cup {[ok |-> TRUE, prox |-> p] : p \in SeqsUpTo(Llegadas(MinutosAlerta), n)}

----------------------------------------------------------------------------
(* JSON persistence of the alerts *)

\* What json.dump writes of alertas, a dict of str keys to lists of
\* [str, int, str] lists: an object with one member for each key, in the
\* dict's order, whose value is the array of the alerts' arrays
\* [parada_id, umbral, direccion]. The fourth component of an array is the
\* history label of the alert, which tells the stored alerts apart.
json_dump_alertas(als) ==
    [i \in 1..Len(als) |->
        [clave |-> als[i].user,
         valor |-> [j \in 1..Len(als[i].subs) |->
                       <<als[i].subs[j].pid, als[i].subs[j].um,
                         als[i].subs[j].dirc, als[i].subs[j].id>>]]]

\* What json.load gives for such an object: the dict of its members in the
\* file's order, each array a list.
json_load_alertas(obj) ==
    [i \in 1..Len(obj) |->
        [user |-> obj[i].clave,
         subs |-> [j \in 1..Len(obj[i].valor) |->
                      [pid |-> obj[i].valor[j][1], um |-> obj[i].valor[j][2],
                       dirc |-> obj[i].valor[j][3], id |-> obj[i].valor[j][4]]]]]

cargar_alertas(file) == json_load_alertas(cargar_json(file, <<>>))

guardar_alertas(als) == guardar_json(json_dump_alertas(als))

----------------------------------------------------------------------------
(* The alert dictionary: an insertion-ordered list of [user, subs] items *)

HasKey(d, k) == \E i \in 1..Len(d) : d[i].user = k

KeyPos(d, k) == CHOOSE i \in 1..Len(d) : d[i].user = k

\* d.setdefault(k, []).append(x)
SetDefaultAppend(d, k, x) ==
    IF HasKey(d, k)
    THEN [d EXCEPT ![KeyPos(d, k)].subs = Append(@, x)]
    ELSE Append(d, [user |-> k, subs |-> <<x>>])

\* The history labels of the alerts stored in d.
StoredIds(d) == UNION {{d[i].subs[j].id : j \in 1..Len(d[i].subs)} : i \in 1..Len(d)}

----------------------------------------------------------------------------
(* handle_callback, the alertdir step *)

\* Number of alerts the model creates.
MaxAlerts == 3

\* The history counts the notifications of one alert up to this many.
MaxCount == 2

\* The alertdir step that sets the user's list to the new alert alone.
alertdir_callback_overwrite(user, pid, umbral, direccion) ==
    LET alerta == [pid |-> pid, um |-> py_int(umbral), dirc |-> direccion,
                   id |-> gh.nextId]
        k      == py_str(user)
    IN  /\ alertas' = IF HasKey(alertas, k)
                      THEN [alertas EXCEPT ![KeyPos(alertas, k)].subs = <<alerta>>]
                      ELSE Append(alertas, [user |-> k, subs |-> <<alerta>>])
        /\ alertFile' = guardar_alertas(alertas')
        /\ gh' = [gh EXCEPT !.nextId = @ + 1]

\* handle_callback with query.from_user.id = user and
\* query.data = "alertdir:{pid}:{umbral}:{direccion}", lines 186-189
alertdir_callback(user, pid, umbral, direccion) ==
    LET alerta == [pid |-> pid, um |-> py_int(umbral), dirc |-> direccion,
                   id |-> gh.nextId]
    IN  /\ alertas' = SetDefaultAppend(alertas, py_str(user), alerta)
        /\ alertFile' = guardar_alertas(alertas')
        /\ gh' = [gh EXCEPT !.nextId = @ + 1]

----------------------------------------------------------------------------
(* check_alertas *)

SwIdle == [pc |-> "idle", used |-> 0, ui |-> 0, si |-> 0, viva |-> <<>>,
           nuevos |-> <<>>, mods |-> FALSE]

NoNotif == [chat_id |-> 0, parada |-> <<"None">>, dirc |-> "", minutos |-> 0]

NoResp == [ok |-> FALSE, prox |-> <<>>]

NoAlert == [pid |-> 0, um |-> 0, dirc |-> "", id |-> 0]

\* The test of line 341 without its comparison of the direction.
Cumple_anydir(prox, um, dirc) ==
    /\ prox # <<>>
    /\ prox[1].minutos <= um

\* The test of line 341 on the body of a successful request.
Cumple(prox, um, dirc) ==
    /\ prox # <<>>
    /\ prox[1].direccion = dirc
    /\ prox[1].minutos <= um

\* The part of a response line 341 reads: its first arrival.
Visto(resp) ==
    [ok |-> resp.ok,
     prox |-> IF resp.prox = <<>> THEN <<>> ELSE <<resp.prox[1]>>]

\* Some arrival of the response is in the alert's direction and within its
\* threshold.
HayLlegada(resp, a) ==
    /\ resp.ok
    /\ \E i \in 1..Len(resp.prox) :
          resp.prox[i].direccion = a.dirc /\ resp.prox[i].minutos <= a.um

\* The history once a sweep is over: what it examined is forgotten.
GhEnd(outcome) ==
    [gh EXCEPT !.outcome = outcome, !.due = {}, !.failed = {}, !.evald = {},
               !.fired = {}, !.atStart = {}]

\* next() of the iterator over alertas.items(), with the locals s of the
\* sweep: RuntimeError when the dict changed size since iter(), the end of
\* the loop (lines 359-362) when every item was given, else the next item.
OuterNext(s) ==
    IF Len(alertas) # s.used
    THEN /\ sw' = SwIdle
         /\ gh' = GhEnd("error")
         /\ UNCHANGED <<alertas, alertFile>>
    ELSE IF s.ui = Len(alertas)
    THEN /\ sw' = SwIdle
         /\ gh' = GhEnd("done")
         /\ IF s.mods
            THEN /\ alertas' = s.nuevos                  \* clear(); update(nuevos)
                 /\ alertFile' = guardar_alertas(alertas')
            ELSE UNCHANGED <<alertas, alertFile>>
    ELSE /\ sw' = [s EXCEPT !.pc = "run", !.ui = @ + 1, !.si = 0, !.viva = <<>>]
         /\ UNCHANGED <<alertas, alertFile, gh>>

\* The job queue calls check_alertas: mods, nuevos, iter(alertas.items()).
SweepStart ==
    /\ sw.pc = "idle"
    /\ LET s == [SwIdle EXCEPT !.used = Len(alertas)]
           g == [gh EXCEPT !.atStart = StoredIds(alertas), !.outcome = "running"]
       IN  IF Len(alertas) = 0
           THEN /\ sw' = SwIdle
                /\ gh' = GhEnd("done")
           ELSE /\ sw' = [s EXCEPT !.pc = "run", !.ui = 1]
                /\ gh' = g
    /\ UNCHANGED <<alertas, alertFile, notif>>
    /\ UNCHANGED <<estVars, favVars, reply, hist, chatVars>>

\* One pass of the inner loop over subs (lines 336-354) up to the await or
\* to viva.append, with resp what the request gave.
SweepAlert(resp) ==
    /\ sw.pc = "run"
    /\ sw.si < Len(alertas[sw.ui].subs)
    /\ LET a == alertas[sw.ui].subs[sw.si + 1]
           g == [gh EXCEPT !.evald = @ \cup {a.id},
                           !.failed = IF resp.ok THEN @ ELSE @ \cup {a.id},
                           !.due = IF HayLlegada(resp, a) THEN @ \cup {a.id} ELSE @]
       IN  IF resp.ok /\ Cumple(resp.prox, a.um, a.dirc)
           THEN /\ sw' = [sw EXCEPT !.pc = "await", !.si = @ + 1]
                /\ notif' = [chat_id |-> py_int(alertas[sw.ui].user),
                             parada |-> paradas_get(a.pid), dirc |-> a.dirc,
                             minutos |-> resp.prox[1].minutos]
                /\ gh' = [g EXCEPT !.cur = a, !.resp = Visto(resp)]
           ELSE /\ sw' = [sw EXCEPT !.si = @ + 1, !.viva = Append(@, a)]
                /\ notif' = notif
                /\ gh' = g
    /\ UNCHANGED <<alertas, alertFile>>
    /\ UNCHANGED <<estVars, favVars, reply, hist, chatVars>>

\* send_message returns (mods = True; continue) or raises (except: pass;
\* viva.append).
SweepSendDone(ok) ==
    /\ sw.pc = "await"
    /\ sw' = [sw EXCEPT !.pc = "run",
                        !.mods = IF ok THEN TRUE ELSE @,
                        !.viva = IF ok THEN @ ELSE Append(@, gh.cur)]
    /\ notif' = NoNotif
    /\ gh' = [gh EXCEPT !.cur = NoAlert, !.resp = NoResp,
                        !.notified[gh.cur.id] =
                            IF ok /\ @ < MaxCount THEN @ + 1 ELSE @,
                        !.fired = IF ok THEN @ \cup {gh.cur.id} ELSE @,
                        !.failed = IF ok THEN @ ELSE @ \cup {gh.cur.id}]
    /\ UNCHANGED <<alertas, alertFile>>
    /\ UNCHANGED <<estVars, favVars, reply, hist, chatVars>>

\* The end of the inner loop without the test of viva: the user's list goes
\* to nuevos also when it is empty.
SweepEndUser_keepempty ==
    /\ sw.pc = "run"
    /\ sw.si >= Len(alertas[sw.ui].subs)
    /\ LET s == [sw EXCEPT !.nuevos =
                     Append(@, [user |-> alertas[sw.ui].user, subs |-> sw.viva]),
                          !.mods = IF sw.viva = <<>> THEN TRUE ELSE @]
       IN  OuterNext(s)
    /\ UNCHANGED notif
    /\ UNCHANGED <<estVars, favVars, reply, hist, chatVars>>

\* The inner loop is over: lines 355-358, then the outer loop's next().
SweepEndUser ==
    /\ sw.pc = "run"
    /\ sw.si >= Len(alertas[sw.ui].subs)
    /\ LET s == IF sw.viva # <<>>
                THEN [sw EXCEPT !.nuevos =
                         Append(@, [user |-> alertas[sw.ui].user, subs |-> sw.viva])]
                ELSE [sw EXCEPT !.mods = TRUE]
       IN  OuterNext(s)
    /\ UNCHANGED notif
    /\ UNCHANGED <<estVars, favVars, reply, hist, chatVars>>

GhInit == [nextId |-> 1, notified |-> [i \in 1..MaxAlerts |-> 0], due |-> {},
           failed |-> {}, evald |-> {}, fired |-> {}, atStart |-> {},
           outcome |-> "none",
           cur |-> NoAlert, resp |-> NoResp]

----------------------------------------------------------------------------
(* The program *)

NoTeclado == [enviado |-> FALSE, filas |-> <<>>]

\* No favourites callback was handled yet.
NoHist == [op |-> "none", user |-> 0, pid |-> 0, antes |-> {}, rep |-> FALSE]

\* No message of the bot with an inline keyboard is in any chat.
InlineInit == [u \in Users |-> {}]

\* context.user_data of every user is empty: .get("menu_msg_id") is None.
UdInit == [u \in Users |-> 0]

\* No menu message is in any chat.
ChatInit == [u \in Users |-> {}]

\* enviar_mensaje_menu is not running and was never called; quedo are the
\* users in whose chat a deletion that failed left a menu message.
MnIdle == [pc |-> "idle", user |-> 0, old |-> 0, pedido |-> 0, sent |-> 0,
           quedo |-> {}]

\* No handler is running.
HdIdle == [pc |-> "idle", user |-> 0, cola |-> <<>>, menu |-> FALSE]

\* A handler runs while check_alertas is not running or is suspended at its
\* await.
HandlerMayRun == sw.pc \in {"idle", "await"}

ParadasInit == cargar_paradas([i \in 1..NumParadas |-> i])

\* __main__: cargar_favoritos, cargar_paradas, cargar_alertas.
Arranque(ff, af) ==
    /\ favFile = ff
    /\ alertFile = af
    /\ favoritos \in cargar_favoritos(favFile)
    /\ paradas = ParadasInit
    /\ alertas = cargar_alertas(alertFile)
    /\ reply = NoReply
    /\ sw = SwIdle
    /\ notif = NoNotif
    /\ gh = GhInit
    /\ datos = <<>>
    /\ teclado = NoTeclado
    /\ hist = NoHist
    /\ inline = InlineInit
    /\ ud = UdInit
    /\ chat = ChatInit
    /\ mn = MnIdle
    /\ hd = HdIdle

Init == Arranque(NoFile, NoFile)

ToggleFav(calls) ==
    /\ HandlerMayRun
    /\ \E c \in calls : toggle_fav_callback(c[1], c[2])
    /\ UNCHANGED <<estVars, alertVars, hist, chatVars>>

DelFav(calls) ==
    /\ HandlerMayRun
    /\ \E c \in calls : del_fav_callback(c[1], c[2])
    /\ UNCHANGED <<estVars, alertVars, hist, chatVars>>

\* The alertdir step up to its first await after the save (lines 186-189);
\* HandleCallback below is the step with the Telegram calls that follow.
AlertDir(max, pids, umbrales) ==
    /\ HandlerMayRun
    /\ gh.nextId <= max
    /\ \E user \in Users, pid \in pids, umbral \in umbrales, d \in Direcciones :
          alertdir_callback(user, pid, umbral, d)
    /\ UNCHANGED <<estVars, favVars, reply, sw, notif, hist, chatVars>>

Request(n) == \E resp \in Responses(n) : SweepAlert(resp)

SendReturns == \E ok \in BOOLEAN : SweepSendDone(ok)

\* The callback handlers alone, no sweep.
NextHandlers ==
    \/ ToggleFav(Users \X {1, 2})
    \/ DelFav(Users \X {1, 2})
    \/ AlertDir(MaxAlerts, {1}, {<<"5">>})

SpecHandlers == Init /\ [][NextHandlers]_vars

\* The toggle callback up to its await, with the history of the call: who
\* called, for which stop, the favourites the call found, and whether the call
\* before it was the same one.
ToggleFavH(calls) ==
    /\ HandlerMayRun
    /\ \E c \in calls : LET user == c[1]  pid == c[2] IN
          /\ toggle_fav_callback(user, pid)
          /\ hist' = [op |-> "toggle", user |-> user, pid |-> pid,
                      antes |-> Elems(DictGet(favoritos, user, EmptySet)),
                      rep |-> hist.op = "toggle" /\ hist.user = user /\ hist.pid = pid]
    /\ UNCHANGED <<estVars, alertVars, chatVars>>

\* The delete callback up to its await, with the history of the call.
DelFavH(calls) ==
    /\ HandlerMayRun
    /\ \E c \in calls : LET user == c[1]  pid == c[2] IN
          /\ del_fav_callback(user, pid)
          /\ hist' = [op |-> "del", user |-> user, pid |-> pid, antes |-> {},
                      rep |-> hist.op = "del" /\ hist.user = user /\ hist.pid = pid]
    /\ UNCHANGED <<estVars, alertVars, chatVars>>

\* The callbacks of the favourites models: user 7 for every stop, the other
\* users for stop 1.
FavCalls == {c \in Users \X FavPids : c[1] = 7 \/ c[2] = 1}

\* Favourites alone.
NextFav == ToggleFav(FavCalls) \/ DelFav(FavCalls)

SpecFav == Init /\ [][NextFav]_vars

\* Favourites alone, with the history of the last call: user 7 toggles and
\* deletes, the other users delete.
NextFavHist == ToggleFavH({7} \X FavPids) \/ DelFavH(FavCalls)

SpecFavHist == Init /\ [][NextFavHist]_vars

\* The process is started again: what was in memory is what the files hold,
\* and a sweep that was under way is gone.
Restart ==
    /\ favoritos' \in cargar_favoritos(favFile)
    /\ alertas' = cargar_alertas(alertFile)
    /\ sw' = SwIdle
    /\ notif' = NoNotif
    /\ reply' = NoReply
    /\ gh' = [GhEnd("none") EXCEPT !.cur = NoAlert, !.resp = NoResp]
    /\ ud' = UdInit                   \* user_data is kept in memory only
    /\ mn' = [MnIdle EXCEPT !.quedo = mn.quedo]
    /\ hd' = HdIdle                   \* the handler that was running is gone
    /\ UNCHANGED <<estVars, favFile, alertFile, hist, inline, chat>>

\* Number of alerts created in the specification of the whole program.
MaxAlertsAll == 1

\* The whole program: favourites, alerts, the sweep and a restart.
Next ==
    \/ ToggleFav(Users \X {1})
    \/ DelFav(Users \X {1})
    \/ AlertDir(MaxAlertsAll, {1}, UmbralButtons)
    \/ SweepStart
    \/ Request(1)
    \/ SendReturns
    \/ SweepEndUser
    \/ Restart

Spec == Init /\ [][Next]_vars

\* Number of alerts created in the specification of the two files.
MaxAlertsPersist == 2

\* What the API answers in the specification of the two files: a train to
\* Armilla in 5 minutes. An alert for Armilla is notified, one for Albolote
\* stays.
RespuestasPersist ==
    {r \in Responses(1) : /\ r.ok
                           /\ r.prox # <<>>
                           /\ r.prox[1].minutos = 5
                           /\ r.prox[1].direccion = "Armilla"}

\* The two files: the steps that change favoritos (user 7 with two stops,
\* user 42 with one) or alertas (either user, either direction), the sweep
\* with handlers running at its await, and a restart at any moment.
NextPersist ==
    \/ ToggleFav({<<7, 1>>, <<7, 2>>, <<42, 1>>})
    \/ DelFav({<<7, 1>>, <<42, 1>>})
    \/ AlertDir(MaxAlertsPersist, {1}, {<<"5">>})
    \/ SweepStart
    \/ \E resp \in RespuestasPersist : SweepAlert(resp)
    \/ SweepSendDone(TRUE)
    \/ SweepEndUser
    \/ Restart

SpecPersist == Init /\ [][NextPersist]_vars

\* Alerts alone: the alertdir step and the sweep.
NextAlert ==
    \/ AlertDir(MaxAlerts, {1}, UmbralButtons)
    \/ SweepStart
    \/ Request(MaxProx)
    \/ SendReturns
    \/ SweepEndUser

SpecAlert == Init /\ [][NextAlert]_vars

\* Alerts alone, with one threshold button and responses of at most one
\* arrival.
NextSubs ==
    \/ AlertDir(MaxAlerts, {1}, {<<"5">>})
    \/ SweepStart
    \/ Request(1)
    \/ SendReturns
    \/ SweepEndUser

SpecSubs == Init /\ [][NextSubs]_vars

----------------------------------------------------------------------------
(* The chat: callback data, inline keyboards and the menu message *)

\* The separator of the parts of query.data.
Sep == ":"

\* f"{a}:{b}:..." : the parts, each a string (a list of tokens), joined by ":".
RECURSIVE callback_data(_)
callback_data(parts) ==
    IF Len(parts) = 1 THEN parts[1]
    ELSE parts[1] \o <<Sep>> \o callback_data(Tail(parts))

\* query.data.split(":")
RECURSIVE py_split(_)
py_split(data) ==
    LET seps == {i \in 1..Len(data) : data[i] = Sep}
    IN  IF seps = {} THEN <<data>>
        ELSE LET k == CHOOSE i \in seps : \A j \in seps : i <= j
             IN  <<SubSeq(data, 1, k - 1)>> \o py_split(SubSeq(data, k + 1, Len(data)))

\* The model names the stop whose id is the string str(p) by the number p.
PidStr(p) == py_str(p)

PidDe(str) == CHOOSE p \in Pids \cup FavPids : PidStr(p) = str

\* A deletion leaves a menu message in the chat only while fewer than this
\* many are there.
MaxMenus == 2

\* sent.message_id: an id no message of the chat has and user_data does not
\* hold (the least such id).
NuevoId(user) ==
    CHOOSE id \in 1..(Cardinality(chat[user]) + 2) :
        /\ id \notin chat[user] \cup {ud[user]}
        /\ \A j \in 1..(id - 1) : j \in chat[user] \cup {ud[user]}

\* What delete_message(old) can do: succeed only when the message is in the
\* chat, fail (an exception enviar_mensaje_menu passes over) otherwise or when
\* Telegram refuses.
Borrados(user, dels) ==
    IF ud[user] \notin chat[user] THEN {FALSE}
    ELSE IF Cardinality(chat[user]) >= MaxMenus THEN dels \ {FALSE}
    ELSE dels

\* enviar_mensaje_menu up to its send_message (lines 104-115): old is read and,
\* when set, its deletion is requested and awaited; ok tells whether the
\* deletion worked.
menu_borrar(user, ok) ==
    LET old == ud[user]
    IN  /\ chat' = IF old # 0 /\ ok THEN [chat EXCEPT ![user] = @ \ {old}] ELSE chat
        /\ mn' = [pc |-> "send", user |-> user, old |-> old,
                  pedido |-> IF old # 0 THEN old ELSE 0, sent |-> 0,
                  quedo |-> IF old # 0 /\ old \in chat[user] /\ ~ok
                            THEN mn.quedo \cup {user} ELSE mn.quedo]
        /\ ud' = ud

\* The end of enviar_mensaje_menu (lines 117-122): send_message returns the
\* message sent, whose id is recorded, or raises.
menu_enviar(ok) ==
    /\ mn.pc = "send"
    /\ IF ok
       THEN /\ chat' = [chat EXCEPT ![mn.user] = @ \cup {NuevoId(mn.user)}]
            /\ ud' = [ud EXCEPT ![mn.user] = NuevoId(mn.user)]
            /\ mn' = [mn EXCEPT !.pc = "idle", !.sent = NuevoId(mn.user)]
       ELSE /\ mn' = [mn EXCEPT !.pc = "idle"]
            /\ UNCHANGED <<chat, ud>>

\* The buttons of start: "ver:{pid}" for every stop.
BotonesStart == {callback_data(<<<<"ver">>, PidStr(paradas[i].id)>>) : i \in 1..Len(paradas)}

\* The buttons of ver_parada_detalle: "toggle:{pid}" and "setalert:{pid}".
BotonesVer(pid) ==
    {callback_data(<<<<"toggle">>, pid>>), callback_data(<<<<"setalert">>, pid>>)}

\* The buttons of the setalert step: "alertthr:{pid}:2", ":5", ":8".
BotonesSetAlert(pid) ==
    {callback_data(<<<<"alertthr">>, pid, u>>) : u \in UmbralButtons}

\* The buttons of the alertthr step: "alertdir:{pid}:{umbral}:Armilla" and
\* "...:Albolote".
BotonesAlertThr(pid, umbral) ==
    {callback_data(<<<<"alertdir">>, pid, umbral, <<d>>>>) : d \in Direcciones}

\* The button of a message of favoritas_cmd: "del:{pid}".
BotonesFav(pid) == {callback_data(<<<<"del">>, PidStr(pid)>>)}

\* A Telegram call a handler awaits, reply_text, send_message or
\* edit_message_text. kb: the call sets the inline keyboard the user can press,
\* to botones (to none for an edit whose markup is no inline keyboard); a new
\* message without an inline keyboard leaves it.
Mensaje(kb, botones) == [kb |-> kb, botones |-> botones, est |-> FALSE, filas |-> <<>>]

\* The handler of user has run up to its first await: cola are the Telegram
\* calls it makes one after the other, menu tells whether it ends with
\* enviar_mensaje_menu.
Llamar(user, cola, menu) ==
    hd' = [pc |-> "tg", user |-> user, cola |-> cola, menu |-> menu]

\* The call a handler awaits returns or raises (lines 138, 168, 180, 190, 221,
\* 242, 249, 256, 262, 269, 302, 308, 318). When it raises the handler is
\* over; else the handler goes on to its next call, to the menu, or returns.
telegram_call(ok) ==
    /\ hd.pc = "tg"
    /\ LET m     == Head(hd.cola)
           resto == Tail(hd.cola)
       IN  IF ok
           THEN /\ inline' = IF m.kb THEN [inline EXCEPT ![hd.user] = m.botones]
                             ELSE inline
                /\ teclado' = IF m.est THEN [enviado |-> TRUE, filas |-> m.filas]
                              ELSE teclado
                /\ hd' = IF resto # <<>> THEN [hd EXCEPT !.cola = resto]
                         ELSE IF hd.menu THEN [hd EXCEPT !.pc = "menu", !.cola = <<>>]
                         ELSE HdIdle
           ELSE /\ hd' = HdIdle
                /\ UNCHANGED <<inline, teclado>>

\* start: the list of stops, then the menu.
start(user) == Llamar(user, <<Mensaje(TRUE, BotonesStart)>>, TRUE)

\* info_cmd: the information text, then the menu.
info_cmd(user) == Llamar(user, <<Mensaje(FALSE, {})>>, TRUE)

\* ver_parada_detalle(q, context, pid): the message is edited to the arrivals
\* of the stop with the buttons toggle and setalert, then the menu.
ver_parada_detalle(user, pid) == Llamar(user, <<Mensaje(TRUE, BotonesVer(pid))>>, TRUE)

\* favoritas_cmd: without favourites one text and no menu; else one message
\* for each favourite in the set's order, with its del button when the
\* request for its arrivals gave 200 (codigos[i]) and an error text when not,
\* then the menu.
favoritas_cmd(user, codigos) ==
    LET favs == DictGet(favoritos, user, EmptySet)
    IN  IF favs = EmptySet
        THEN Llamar(user, <<Mensaje(FALSE, {})>>, FALSE)
        ELSE Llamar(user,
                    [i \in 1..Len(favs) |->
                        IF codigos[i] THEN Mensaje(TRUE, BotonesFav(favs[i]))
                        ELSE Mensaje(FALSE, {})],
                    TRUE)

\* handle_callback with query.from_user.id = user and query.data = data, up to
\* the first await after query.answer().
handle_callback(user, data) ==
    LET parts  == py_split(data)
        action == parts[1]
    IN  IF action = <<"ver">>
        THEN /\ ver_parada_detalle(user, parts[2])
             /\ UNCHANGED <<favoritos, favFile, reply, alertas, alertFile, gh>>
        ELSE IF action = <<"toggle">>
        THEN /\ toggle_fav_callback(user, PidDe(parts[2]))
             /\ Llamar(user, <<Mensaje(TRUE, {})>>, FALSE)
             /\ UNCHANGED <<alertas, alertFile, gh>>
        ELSE IF action = <<"del">>
        THEN /\ del_fav_callback(user, PidDe(parts[2]))
             /\ Llamar(user, <<Mensaje(TRUE, {})>>, FALSE)
             /\ UNCHANGED <<alertas, alertFile, gh>>
        ELSE IF action = <<"setalert">>
        THEN /\ Llamar(user, <<Mensaje(TRUE, BotonesSetAlert(parts[2]))>>, FALSE)
             /\ UNCHANGED <<favoritos, favFile, reply, alertas, alertFile, gh>>
        ELSE IF action = <<"alertthr">>
        THEN /\ Llamar(user, <<Mensaje(TRUE, BotonesAlertThr(parts[2], parts[3]))>>, FALSE)
             /\ UNCHANGED <<favoritos, favFile, reply, alertas, alertFile, gh>>
        ELSE IF action = <<"alertdir">>
        THEN /\ alertdir_callback(user, PidDe(parts[2]), parts[3], parts[4][1])
             /\ Llamar(user, <<Mensaje(TRUE, {})>>, TRUE)
             /\ UNCHANGED <<favoritos, favFile, reply>>
        ELSE UNCHANGED <<favoritos, favFile, reply, alertas, alertFile, gh, hd>>

\* Updates are handled one at a time: no handler starts while another has not
\* returned.
UpdateMayRun == HandlerMayRun /\ hd.pc = "idle"

Start(users) ==
    /\ UpdateMayRun
    /\ \E user \in users : start(user)
    /\ UNCHANGED <<estVars, favVars, alertVars, reply, hist, inline, ud, chat, mn>>

InfoCmd(users) ==
    /\ UpdateMayRun
    /\ \E user \in users : info_cmd(user)
    /\ UNCHANGED <<estVars, favVars, alertVars, reply, hist, inline, ud, chat, mn>>

\* favoritas_cmd, with the API answering each request with 200 or with one of
\* the other codes, as codigos allows.
FavoritasCmd(users, codigos) ==
    /\ UpdateMayRun
    /\ \E user \in users :
          \E cs \in [1..Len(DictGet(favoritos, user, EmptySet)) -> codigos] :
              favoritas_cmd(user, cs)
    /\ UNCHANGED <<estVars, favVars, alertVars, reply, hist, inline, ud, chat, mn>>

\* The buttons on the way to an alert for the stops and thresholds given.
BotonesAlerta(pids, umbrales) ==
    UNION {{callback_data(<<<<"ver">>, PidStr(p)>>)}
              \cup {callback_data(<<<<"setalert">>, PidStr(p)>>)}
              \cup (BotonesSetAlert(PidStr(p)) \cap
                        {callback_data(<<<<"alertthr">>, PidStr(p), u>>) : u \in umbrales})
              \cup UNION {BotonesAlertThr(PidStr(p), u) : u \in umbrales} : p \in pids}

\* The buttons of the favourites of the stops given: ver, toggle and del.
BotonesFavoritas(pids) ==
    UNION {{callback_data(<<<<"ver">>, PidStr(p)>>),
            callback_data(<<<<"toggle">>, PidStr(p)>>)} \cup BotonesFav(p) : p \in pids}

\* A user presses a button of the keyboard, one of those of botones[user],
\* while fewer than max alerts were created.
HandleCallback(max, botones) ==
    /\ UpdateMayRun
    /\ \E user \in Users : \E data \in inline[user] \cap botones[user] :
          /\ py_split(data)[1] = <<"alertdir">> => gh.nextId <= max
          /\ handle_callback(user, data)
    /\ UNCHANGED <<estVars, sw, notif, hist, inline, ud, chat, mn>>

\* The Telegram call the handler awaits returns (TRUE) or raises (FALSE).
TelegramCall(oks) ==
    /\ HandlerMayRun
    /\ \E ok \in oks : telegram_call(ok)
    /\ UNCHANGED <<paradas, datos, favVars, alertVars, reply, hist, ud, chat, mn>>

\* The handler calls enviar_mensaje_menu.
MenuBorrar(dels) ==
    /\ HandlerMayRun
    /\ hd.pc = "menu"
    /\ mn.pc = "idle"
    /\ \E ok \in Borrados(hd.user, dels) : menu_borrar(hd.user, ok)
    /\ UNCHANGED <<estVars, favVars, alertVars, reply, hist, inline, hd>>

\* send_message of enviar_mensaje_menu returns or raises, and the handler
\* is over.
MenuSend(sends) ==
    /\ HandlerMayRun
    /\ \E ok \in sends : menu_enviar(ok)
    /\ hd' = HdIdle
    /\ UNCHANGED <<estVars, favVars, alertVars, reply, hist, inline>>

\* Number of alerts created in the specification of the alert buttons.
MaxAlertsChat == 2

\* The buttons the users of the model press: user 7 those of stop 1 with any
\* threshold, the other users those of stop 1 with the threshold of 5 minutes.
Pulsables ==
    [u \in Users |-> IF u = 7 THEN BotonesAlerta({1}, UmbralButtons)
                              ELSE BotonesAlerta({1}, {<<"5">>})]

\* The way to an alert through the buttons, with a Telegram whose edits can
\* fail.
NextBotones ==
    \/ Start(Users)
    \/ HandleCallback(MaxAlertsChat, Pulsables)
    \/ TelegramCall(BOOLEAN)
    \/ MenuBorrar({TRUE})
    \/ MenuSend({TRUE})

SpecBotones == Init /\ [][NextBotones]_vars

\* The buttons pressed in the specification of the menu: user 7 those of the
\* favourites of stop 1.
PulsablesMenu == [u \in Users |-> IF u = 7 THEN BotonesFavoritas({1}) ELSE {}]

\* The process is started again, while no chat holds MaxMenus menu messages:
\* user_data is empty afterwards, the chats are as they were.
RestartMenu ==
    /\ \A u \in Users : Cardinality(chat[u]) < MaxMenus
    /\ Restart

\* The menu message: every handler that sends it, with a Telegram whose calls
\* can fail, and a restart at any moment.
NextMenu ==
    \/ InfoCmd(Users)
    \/ Start(Users)
    \/ FavoritasCmd({7}, BOOLEAN)
    \/ HandleCallback(0, PulsablesMenu)
    \/ TelegramCall(BOOLEAN)
    \/ MenuBorrar(BOOLEAN)
    \/ MenuSend(BOOLEAN)
    \/ RestartMenu

SpecMenu == Init /\ [][NextMenu]_vars

----------------------------------------------------------------------------
(* estado_textual *)

\* Minutes the API reports in the network-status model: 0, and the two sides
\* of the "train is near" test.
MinutosEstado == {0, 2, 3}

\* Most arrivals in one body of GET /metro/llegadas.
MaxLlegadas == 2

\* The icon test of lines 295-296: t < 3.
TrenCerca == 3

Dash == "-"

\* lleg = {e["parada"]["id"]: e.get("proximos", []) for e in datos}, then
\* lleg.get(pid, []): the proximos of the last entry of datos for pid.
lleg_get(ds, pid) ==
    LET is == {i \in 1..Len(ds) : ds[i].parada = pid}
    IN  IF is = {} THEN <<>>
        ELSE ds[CHOOSE i \in is : \A j \in is : j <= i].proximos

\* next((t["minutos"] for t in prox if t["direccion"] == dir), None), with
\* None as <<>> and minutes m as <<m>>.
Primero(prox, dir) ==
    LET is == {i \in 1..Len(prox) : prox[i].direccion = dir}
    IN  IF is = {} THEN <<>>
        ELSE <<prox[CHOOSE i \in is : \A j \in is : i <= j].minutos>>

\* One button: f"{nombre} {icon if t is not None and t < 3 else ''}{t or dash}m"
\* with callback_data f"ver:{pid}".
Boton(pid, nombre, t) ==
    [nombre |-> nombre,
     icono |-> t # <<>> /\ t[1] < TrenCerca,
     valor |-> IF t = <<>> \/ t[1] = 0 THEN <<Dash>> ELSE py_str(t[1]),
     callback |-> <<"ver", pid>>]

\* A row of the keyboard: the left button is for the stop at position i of
\* ps, the right button for the stop at position j.
Fila(ps, ds, i, j) ==
    [izq |-> Boton(ps[i].id, ps[i].nombre, Primero(lleg_get(ds, ps[i].id), "Armilla")),
     der |-> Boton(ps[j].id, ps[j].nombre, Primero(lleg_get(ds, ps[j].id), "Albolote"))]

\* The keyboard with each row's right button taken from the stop at the
\* mirrored position of the list.
estado_textual_mirrored(ps, ds) ==
    [i \in 1..Len(ps) |-> Fila(ps, ds, i, Len(ps) + 1 - i)]

\* estado_textual: the rows of the keyboard, one for each stop of paradas in
\* its order.
estado_textual(ps, ds) ==
    [i \in 1..Len(ps) |-> Fila(ps, ds, i, i)]

\* The lists of at most n distinct stops cargar_paradas can have loaded.
RECURSIVE DistinctSeqs(_, _)
DistinctSeqs(S, n) ==
    IF n = 0 THEN {<<>>}
    ELSE LET shorter == DistinctSeqs(S, n - 1)
         IN  shorter \cup
             UNION {{Append(p, x) : x \in S \ Elems(p)} :
                       p \in {q \in shorter : Len(q) = n - 1}}

\* The bodies of GET /metro/llegadas over the stops i..NumParadas with at
\* most k arrivals in all: a stop is missing or has one entry.
RECURSIVE DatosDesde(_, _)
DatosDesde(i, k) ==
    IF i > NumParadas THEN {<<>>}
    ELSE DatosDesde(i + 1, k) \cup
         UNION {{<<[parada |-> i, proximos |-> p]>> \o r : r \in DatosDesde(i + 1, k - Len(p))} :
                   p \in SeqsUpTo(Llegadas(MinutosEstado), k)}

\* The callback data of the buttons of a keyboard of estado_textual.
BotonesEstado(filas) ==
    UNION {{callback_data(<<<<b.callback[1]>>, PidStr(b.callback[2])>>) :
               b \in {filas[i].izq, filas[i].der}} : i \in 1..Len(filas)}

\* estado_textual called by a user, with datos the body of its request: the
\* keyboard is built (lines 282-300), then the title is sent, then the message
\* with the keyboard, then the menu.
EstadoTextual(users) ==
    /\ UpdateMayRun
    /\ \E user \in users :
          LET filas == estado_textual(paradas, datos)
          IN  Llamar(user,
                     <<Mensaje(FALSE, {}),
                       [kb |-> TRUE, botones |-> BotonesEstado(filas),
                        est |-> TRUE, filas |-> filas]>>,
                     TRUE)
    /\ UNCHANGED <<estVars, favVars, alertVars, reply, hist, inline, ud, chat, mn>>

InitEstado ==
    /\ paradas \in {cargar_paradas(o) : o \in DistinctSeqs(Pids, NumParadas)}
    /\ datos \in DatosDesde(1, MaxLlegadas)
    /\ teclado = NoTeclado
    /\ favFile = NoFile
    /\ alertFile = NoFile
    /\ favoritos \in cargar_favoritos(favFile)
    /\ alertas = cargar_alertas(alertFile)
    /\ reply = NoReply
    /\ sw = SwIdle
    /\ notif = NoNotif
    /\ gh = GhInit
    /\ hist = NoHist
    /\ inline = InlineInit
    /\ ud = UdInit
    /\ chat = ChatInit
    /\ mn = MnIdle
    /\ hd = HdIdle

\* The network status asked for by one user, with a Telegram that does what
\* it is asked.
NextEstado ==
    \/ EstadoTextual({7})
    \/ TelegramCall({TRUE})
    \/ MenuBorrar({TRUE})
    \/ MenuSend({TRUE})

SpecEstado == InitEstado /\ [][NextEstado]_vars

----------------------------------------------------------------------------
(* Properties *)

\* The favourites of user u: the elements of favoritos.get(u, set()).
FavsOf(f, u) == Elems(DictGet(f, u, EmptySet))

\* The alert list of the user with key k: alertas.get(k, []).
AlertsOf(d, k) == IF HasKey(d, k) THEN d[KeyPos(d, k)].subs ELSE <<>>

\* The stored entry with history label id, with the key it is stored under.
Entries(d) ==
    UNION {{[user |-> d[i].user, alerta |-> d[i].subs[j]] : j \in 1..Len(d[i].subs)} :
              i \in 1..Len(d)}

EntryOf(d, id) == {e \in Entries(d) : e.alerta.id = id}

\* The step in which a sweep ends: its loop is over, or RuntimeError left it.
Finishing == sw.pc = "run" /\ sw'.pc = "idle"

\* C1: no user ever has more than 5 favourites, whatever toggle_fav_callback
\* and del_fav_callback calls were made, by whichever users.
C1_FavCapacity ==
    \A u \in DOMAIN favoritos :
        /\ Len(favoritos[u]) <= FavLimit
        /\ Cardinality(Elems(favoritos[u])) = Len(favoritos[u])

\* A user with 5 favourites toggled a sixth stop and got the limit message.
C1_Witness ==
    /\ reply.text = MsgLimite
    /\ reply.user \in DOMAIN favoritos
    /\ Len(favoritos[reply.user]) = FavLimit

\* C2: when a sweep ends, every alert for which the API reported an arrival
\* in its direction within its threshold was notified in that sweep and is no
\* longer stored. Stated for the sweeps that ended normally and the alerts
\* whose request and send_message did not raise.
C2_FiresWhenDue ==
    [][(Finishing /\ gh'.outcome = "done")
          => \A id \in gh.due \ gh.failed :
                 id \in gh.fired /\ id \notin StoredIds(alertas')]_vars

\* C3: no alert created by the alertdir step is notified more than once.
C3_FiresOnce == \A id \in 1..MaxAlerts : gh.notified[id] <= 1

\* C4 as stated: row i pairs the i-th stop of the list (left) with the stop at
\* the mirrored position (right).
C4_MirroredPairing ==
    teclado.enviado =>
        /\ Len(teclado.filas) = Len(paradas)
        /\ \A i \in 1..Len(paradas) :
               /\ teclado.filas[i].izq.callback = <<"ver", paradas[i].id>>
               /\ teclado.filas[i].izq.nombre = paradas[i].nombre
               /\ teclado.filas[i].der.callback = <<"ver", paradas[Len(paradas) + 1 - i].id>>
               /\ teclado.filas[i].der.nombre = paradas[Len(paradas) + 1 - i].nombre

\* C4, amended: row i shows the i-th stop of the list in both columns, the
\* left one with an arrival of that stop towards Armilla and the right one
\* with an arrival of that stop towards Albolote.
C4_SameStopPairing ==
    teclado.enviado =>
        /\ Len(teclado.filas) = Len(paradas)
        /\ \A i \in 1..Len(paradas) :
               /\ teclado.filas[i].izq.callback = <<"ver", paradas[i].id>>
               /\ teclado.filas[i].izq.nombre = paradas[i].nombre
               /\ teclado.filas[i].der.callback = <<"ver", paradas[i].id>>
               /\ teclado.filas[i].der.nombre = paradas[i].nombre
               /\ teclado.filas[i].izq.valor # <<Dash>> =>
                      \E t \in Elems(lleg_get(datos, paradas[i].id)) :
                          /\ t.direccion = "Armilla"
                          /\ py_str(t.minutos) = teclado.filas[i].izq.valor
               /\ teclado.filas[i].der.valor # <<Dash>> =>
                      \E t \in Elems(lleg_get(datos, paradas[i].id)) :
                          /\ t.direccion = "Albolote"
                          /\ py_str(t.minutos) = teclado.filas[i].der.valor

\* A keyboard of at least two rows was sent, whose first row shows different
\* minutes in its two columns and whose last row is another stop.
C4_Witness ==
    /\ teclado.enviado
    /\ Len(teclado.filas) >= 2
    /\ teclado.filas[1].izq.valor # <<Dash>>
    /\ teclado.filas[1].der.valor # <<Dash>>
    /\ teclado.filas[1].izq.valor # teclado.filas[1].der.valor
    /\ teclado.filas[Len(teclado.filas)].der.callback # teclado.filas[1].der.callback

\* C5: a toggle removes pid when it is a favourite, else adds it when the user
\* has fewer than 5, else leaves the set and answers with the limit message;
\* the membership of every other stop is as before.
C5_ToggleOutcome ==
    [][hist'.op = "toggle" =>
          LET user == hist'.user
              pid  == hist'.pid
          IN  \A before \in {FavsOf(favoritos, user)} :
              \A after \in {FavsOf(favoritos', user)} :
                  /\ reply'.user = user
                  /\ \/ /\ pid \in before
                        /\ after = before \ {pid}
                        /\ reply'.text = MsgEliminada
                     \/ /\ pid \notin before
                        /\ Cardinality(before) < FavLimit
                        /\ after = before \cup {pid}
                        /\ reply'.text = MsgAnadida
                     \/ /\ pid \notin before
                        /\ Cardinality(before) >= FavLimit
                        /\ after = before
                        /\ reply'.text = MsgLimite
                  /\ after \ {pid} = before \ {pid}]_vars

\* A favourite was toggled off a full set: four are left, it is not one.
C5_Witness ==
    /\ hist.op = "toggle"
    /\ reply.text = MsgEliminada
    /\ Cardinality(hist.antes) = FavLimit
    /\ FavsOf(favoritos, hist.user) = hist.antes \ {hist.pid}
    /\ Len(favoritos[hist.user]) = FavLimit - 1

\* C6: a toggle or a delete by user u leaves every other user's favourites as
\* they were; an alertdir callback by u leaves every other user's alert list
\* and all the favourites as they were.
C6_UserScoped ==
    [][/\ \A u \in Users, pid \in Pids :
             (toggle_fav_callback(u, pid) \/ del_fav_callback(u, pid)) =>
                 \A v \in Users \ {u} :
                     /\ FavsOf(favoritos', v) = FavsOf(favoritos, v)
                     /\ (v \in DOMAIN favoritos') = (v \in DOMAIN favoritos)
       /\ \A u \in Users, pid \in Pids, umbral \in UmbralButtons, d \in Direcciones :
             alertdir_callback(u, pid, umbral, d) =>
                 /\ favoritos' = favoritos
                 /\ \A v \in Users \ {u} :
                        AlertsOf(alertas', py_str(v)) = AlertsOf(alertas, py_str(v))]_vars

\* Both users have favourites entries that differ and both have alerts; the
\* last favourites callback was a removal.
C6_Witness ==
    /\ \A u \in Users : u \in DOMAIN favoritos /\ AlertsOf(alertas, py_str(u)) # <<>>
    /\ \E u, v \in Users : favoritos[u] # EmptySet /\ favoritos[v] = EmptySet
    /\ reply.text \in {MsgEliminada, MsgFavDel}

\* C7: what the files hold is what is in memory: loading them gives the same
\* favourites (users and sets) and the same alerts (users, lists, order).
C7_PersistenceRoundTrip ==
    /\ \A f \in cargar_favoritos(favFile) :
           /\ DOMAIN f = DOMAIN favoritos
           /\ \A u \in DOMAIN f : Elems(f[u]) = Elems(favoritos[u])
    /\ cargar_alertas(alertFile) = alertas

\* User 7 has two favourites and user 42 an entry; of the alerts of two
\* users a sweep that ended normally has notified and removed the first and
\* kept the second, which is what the file holds and a load gives.
C7_Witness ==
    /\ DOMAIN favoritos = Users
    /\ Cardinality(FavsOf(favoritos, 7)) = 2
    /\ favFile.exists
    /\ favFile.data[py_str(7)] = py_list(favoritos[7])
    /\ gh.outcome = "done"
    /\ gh.notified[1] = 1
    /\ Len(alertas) = 1
    /\ alertas[1].user = py_str(42)
    /\ Len(alertas[1].subs) = 1
    /\ alertas[1].subs[1].id = 2
    /\ alertFile.exists
    /\ Len(alertFile.data) = 1
    /\ cargar_alertas(alertFile) = alertas

\* C8: an alert that was created is stored unless it was notified.
C8_NoSilentDrop ==
    \A id \in 1..(gh.nextId - 1) :
        id \in StoredIds(alertas) \/ gh.notified[id] >= 1

\* C9: a notification is sent only for a stored alert whose request succeeded
\* and whose examined arrival is in the alert's direction and within its
\* threshold; the message goes to the alert's user and reports that arrival's
\* minutes.
C9_NoSpuriousAlert ==
    sw.pc = "await" =>
        /\ gh.resp.ok
        /\ gh.resp.prox # <<>>
        /\ gh.resp.prox[1].direccion = gh.cur.dirc
        /\ gh.resp.prox[1].minutos <= gh.cur.um
        /\ notif.minutos = gh.resp.prox[1].minutos
        /\ notif.dirc = gh.cur.dirc
        /\ notif.parada = Nombre(gh.cur.pid)
        /\ [user |-> py_str(notif.chat_id), alerta |-> gh.cur] \in Entries(alertas)

\* A notification to user 42 is in flight for an arrival exactly at the
\* threshold.
C9_Witness ==
    /\ sw.pc = "await"
    /\ notif.chat_id = 42
    /\ notif.minutos = gh.cur.um

\* C10: when a request or a send_message of a sweep raised, the sweep still
\* ends normally, has examined every alert that was stored when it began, and
\* the alerts that raised are stored as they were.
C10_CatchAndIgnore ==
    [][(Finishing /\ gh.failed # {})
          => /\ gh'.outcome = "done"
             /\ gh.atStart \subseteq gh.evald
             /\ \A id \in gh.failed :
                    /\ EntryOf(alertas', id) # {}
                    /\ EntryOf(alertas', id) = EntryOf(alertas, id)]_vars

\* The first arrival of stop pid in direction dir in the body ds of
\* GET /metro/llegadas: <<minutes>>, or <<>> when there is none.
PrimeraLlegada(ds, pid, dir) == Primero(lleg_get(ds, pid), dir)

\* C11: in every row of the keyboard estado_textual sent, and for each of the
\* two directions, the cell shows the train icon exactly when the stop's first
\* arrival in that direction is fewer than 3 minutes away, shows that
\* arrival's minutes whenever there is such an arrival, and shows the dash
\* only when the stop has no arrival in that direction.
C11_CellContent ==
    teclado.enviado =>
        \A i \in 1..Len(paradas) :
            \A c \in {[dir |-> "Armilla", b |-> teclado.filas[i].izq],
                       [dir |-> "Albolote", b |-> teclado.filas[i].der]} :
                LET t == PrimeraLlegada(datos, paradas[i].id, c.dir)
                IN  /\ c.b.icono <=> (t # <<>> /\ t[1] < TrenCerca)
                    /\ t # <<>> => c.b.valor = py_str(t[1])
                    /\ c.b.valor = <<Dash>> => t = <<>>

\* C12: a toggle for stop pid by a user, right after a toggle for the same
\* stop by the same user, leaves the user's favourites as the first of the two
\* calls found them.
C12_ToggleInvolution ==
    [][(hist'.op = "toggle" /\ hist'.rep)
          => FavsOf(favoritos', hist'.user) = hist.antes]_vars

\* A stop was toggled twice in a row by a user with five other favourites:
\* the limit was answered both times.
C12_Witness ==
    /\ hist.op = "toggle"
    /\ hist.rep
    /\ reply.text = MsgLimite
    /\ Cardinality(FavsOf(favoritos, hist.user)) = FavLimit
    /\ hist.pid \notin FavsOf(favoritos, hist.user)

\* The alerts of a list as [parada_id, umbral, direccion] triples.
Campos(subs) == [i \in 1..Len(subs) |-> <<subs[i].pid, subs[i].um, subs[i].dirc>>]

\* C13: a setalert or alertthr callback leaves alertas and its file as they
\* were; an alertdir callback appends exactly one entry to the calling user's
\* list, with the stop, the threshold as an integer and the direction of the
\* callback data, and leaves the other users' lists as they were; alertas
\* changes in no other step; and every stored alert has a threshold in
\* {2, 5, 8} and a direction in {Armilla, Albolote}.
C13_AlertProtocol ==
    [][/\ \A user \in Users : \A data \in inline[user] :
             LET parts == py_split(data)
             IN  /\ parts[1] \in {<<"setalert">>, <<"alertthr">>} =>
                        \/ alertas' = alertas /\ alertFile' = alertFile
                        \/ ~handle_callback(user, data)
                 /\ parts[1] = <<"alertdir">> =>
                        \/ /\ Campos(AlertsOf(alertas', py_str(user))) =
                                  Append(Campos(AlertsOf(alertas, py_str(user))),
                                         <<PidDe(parts[2]), py_int(parts[3]), parts[4][1]>>)
                           /\ \A v \in Users \ {user} :
                                  AlertsOf(alertas', py_str(v)) = AlertsOf(alertas, py_str(v))
                        \/ ~handle_callback(user, data)
       /\ alertas' # alertas =>
              \E user \in Users : \E data \in inline[user] :
                  /\ py_split(data)[1] = <<"alertdir">>
                  /\ handle_callback(user, data)
       /\ \A e \in Entries(alertas') :
              e.alerta.um \in {2, 5, 8} /\ e.alerta.dirc \in {"Armilla", "Albolote"}]_vars

\* A user went twice through the buttons: the list holds an alert of 2 minutes
\* and, after it, one of 8 minutes in the other direction; the keyboard of the
\* last step is gone and the menu was sent.
C13_Witness ==
    \E u \in Users :
        LET subs == AlertsOf(alertas, py_str(u))
        IN  /\ Len(subs) = 2
            /\ subs[1].um = 2
            /\ subs[2].um = 8
            /\ subs[1].dirc # subs[2].dirc
            /\ inline[u] = {}
            /\ hd.pc = "idle"
            /\ mn.pc = "idle"
            /\ mn.user = u
            /\ mn.sent # 0

\* C14: a delete for stop pid by a user leaves the user's favourites as they
\* were, less pid; when pid is not one of them, or the user has no entry, the
\* favourites of every user are as before and no entry is created; and a
\* delete right after the same delete leaves the favourites and their file as
\* the first one left them.
C14_DeleteFavorite ==
    [][hist'.op = "del" =>
          LET user == hist'.user
              pid  == hist'.pid
          IN  /\ FavsOf(favoritos', user) = FavsOf(favoritos, user) \ {pid}
              /\ pid \notin FavsOf(favoritos, user) => favoritos' = favoritos
              /\ user \notin DOMAIN favoritos => favoritos' = favoritos
              /\ hist'.rep => /\ favoritos' = favoritos
                              /\ favFile' = favFile
                              /\ reply' = reply]_vars

\* The same delete was handled twice in a row for a user who keeps other
\* favourites, after a delete by a user without an entry left that user
\* without one.
C14_Witness ==
    /\ hist.op = "del"
    /\ hist.rep
    /\ hist.user \in DOMAIN favoritos
    /\ favoritos[hist.user] # EmptySet
    /\ hist.pid \notin FavsOf(favoritos, hist.user)
    /\ \E v \in Users : v \notin DOMAIN favoritos
    /\ favFile.exists

\* C15: once enviar_mensaje_menu has returned, the user's menu_msg_id is the
\* id of the menu message it sent, and that message is in the chat; the
\* deletion it requested before sending is that of the menu message stored
\* for the user; a failed deletion does not stop the send; and a user in
\* whose chat no deletion has failed has at most one menu message, at any
\* time.
C15_SingleMenu ==
    /\ (mn.pc = "idle" /\ mn.sent # 0) =>
           /\ ud[mn.user] = mn.sent
           /\ mn.sent \in chat[mn.user]
           /\ mn.sent # mn.old
    /\ mn.pc = "send" => mn.pedido = ud[mn.user]
    /\ (mn.user # 0 /\ mn.old # 0) => mn.pedido = mn.old
    /\ \A u \in Users \ mn.quedo : Cardinality(chat[u]) <= 1

\* C16: every user key of alertas maps to a non-empty list, in every state
\* alertdir callbacks and sweeps lead to from a store without empty lists.
C16_NoEmptyLists ==
    \A i \in 1..Len(alertas) : alertas[i].subs # <<>>

\* Two alerts or more were created, a sweep that ended normally has notified
\* every one of them, and no user key is left.
C16_Witness ==
    /\ gh.outcome = "done"
    /\ gh.nextId > 2
    /\ \A id \in 1..(gh.nextId - 1) : gh.notified[id] >= 1
    /\ alertas = <<>>
    /\ alertFile = guardar_alertas(<<>>)

====
